---- MODULE Spec2Model ----
(***************************************************************************)
(* Model of src/banking.py: card generation (Account), the sqlite table    *)
(* "card", the ledger functions (get_balance, update_balance,              *)
(* close_account, passes_luhn, do_transfer, login, create_card) and the    *)
(* driver loop of __main__.                                                *)
(*                                                                         *)
(* Strings of digits are sequences of digits: "400000" is                  *)
(* <<4,0,0,0,0,0>>.  The table is the sequence of its rows in rowid order; *)
(* it has no key and no UNIQUE constraint, so it may hold equal rows.      *)
(***************************************************************************)
EXTENDS Integers, Sequences, FiniteSets, TLC

\* ------------------------------------------------------------------ bounds
\* rows the table may hold (create is disabled beyond it)
MaxCards == 2
\* random.randint for the PIN returns a value in 0..MaxPinDraw
MaxPinDraw == 0
\* amounts typed at the prompts are in -MaxAmount..MaxAmount
MaxAmount == 1
\* operations whose result leaves -MaxBalance..MaxBalance are not taken
MaxBalance == 1

\* ------------------------------------------------------------- constants
AccountWidth == 9
PinWidth == 4

Amounts == (0 - MaxAmount)..MaxAmount
Balances == (0 - MaxBalance)..MaxBalance

\* ------------------------------------------------------------ formatting
RECURSIVE Pow10(_)
Pow10(k) == IF k = 0 THEN 1 ELSE 10 * Pow10(k - 1)

\* '{:09d}'.format(n), '{:04d}'.format(n): n in decimal, zero-padded to w
Format(n, w) == [i \in 1..w |-> (n \div Pow10(w - i)) % 10]

\* the INTEGER affinity of column id: the text of digits stored as a number
RECURSIVE ToInteger(_)
ToInteger(s) ==
    IF s = <<>> THEN 0
    ELSE 10 * ToInteger(SubSeq(s, 1, Len(s) - 1)) + s[Len(s)]

\* sum(x_list): the sum of the first n elements, and of all of them
RECURSIVE SumTo(_, _)
SumTo(s, n) == IF n = 0 THEN 0 ELSE SumTo(s, n - 1) + s[n]

Sum(s) == SumTo(s, Len(s))

\* ------------------------------------------------------------------ Luhn
BankPrefix == <<4, 0, 0, 0, 0, 0>>

\* "multiply odd digits (even indices) by 2": Python index i is TLA+ index
\* i + 1, so the even Python indices are the odd TLA+ indices
\* variant of DoubleEvenIndices: the odd Python indices are doubled
DoubleEvenIndices_Odd(x) == [i \in 1..Len(x) |-> IF (i - 1) % 2 = 1 THEN x[i] * 2 ELSE x[i]]

DoubleEvenIndices(x) == [i \in 1..Len(x) |-> IF (i - 1) % 2 = 0 THEN x[i] * 2 ELSE x[i]]

\* "subtract 9 from all numbers over 9"
SubtractNine(x) == [i \in 1..Len(x) |-> IF x[i] > 9 THEN x[i] - 9 ELSE x[i]]

LuhnControl(x) == Sum(SubtractNine(DoubleEvenIndices(x)))

\* variant of generate_checksum: control % 10 taken as the digit
generate_checksum_NoComplement(account_number) ==
    LuhnControl(BankPrefix \o account_number) % 10

generate_checksum(account_number) ==
    (10 - (LuhnControl(BankPrefix \o account_number) % 10)) % 10

generate_card_number(account_number) ==
    BankPrefix \o account_number \o <<generate_checksum(account_number)>>

\* the digits an f-string writes for a number >= 0 (no padding)
RECURSIVE Str(_)
Str(n) == IF n < 10 THEN <<n>> ELSE Str(n \div 10) \o <<n % 10>>

\* generate_card_number on the fields of the object: f'400000{...}{...}'
ComposeCardNumber(account_number, checksum) ==
    BankPrefix \o account_number \o Str(checksum)

passes_luhn(card_num) ==
    LET checksum == card_num[Len(card_num)]
        card_num_list == SubSeq(card_num, 1, Len(card_num) - 1)
    IN  (LuhnControl(card_num_list) + checksum) % 10 = 0

\* ------------------------------------------------------------- the table
\* SELECT * FROM card WHERE number=?
SelectWhereNumber(t, num) == SelectSeq(t, LAMBDA r : r.number = num)

\* variant of UpdateWhereNumber: UPDATE card SET balance=?, without the WHERE
UpdateWhereNumber_All(t, num, b) ==
    [i \in 1..Len(t) |-> [t[i] EXCEPT !.balance = b]]

\* UPDATE card SET balance=? WHERE number=?
UpdateWhereNumber(t, num, b) ==
    [i \in 1..Len(t) |-> IF t[i].number = num THEN [t[i] EXCEPT !.balance = b] ELSE t[i]]

\* DELETE FROM card WHERE number=?
DeleteWhereNumber(t, num) == SelectSeq(t, LAMBDA r : r.number # num)

\* INSERT INTO card VALUES (?, ?, ?, ?)
InsertRow(t, account_number, card_number, pin, balance) ==
    Append(t, [id |-> ToInteger(account_number), number |-> card_number,
               pin |-> pin, balance |-> balance])

\* ------------------------------------------------------------------ state
VARIABLES
    card,                \* the table card of card.s3db: rows in rowid order
    logged_in,           \* __main__: logged_in
    active_card_number,  \* __main__: active_card_number (None is <<>>)
    running,             \* FALSE once the main loop has left by break
    input,               \* what the last iteration of the loop read from input()
    output,              \* the last message that iteration printed
    procs,               \* sessions that share card.s3db (ConcSpec only)
    account              \* the Account object Account.__init__ is building

vars == <<card, logged_in, active_card_number, running, input, output, procs,
          account>>

None == <<>>

\* the texts do_transfer, login and __main__ print
MsgLuhn == "Probably you made a mistake in the card number. Please try again!"
MsgSame == "You can't transfer money to the same account!"
MsgNoCard == "Such a card does not exist."
MsgNoMoney == "Not enough money!"
MsgSuccess == "Success!"
MsgIncome == "Income was added!"
MsgCreated == "Your card has been created"
MsgLoggedIn == "You have successfully logged in!"
MsgWrong == "Wrong card number or PIN!"
MsgClosed == "The account has been closed!"
MsgLoggedOut == "You have successfully logged out!"
MsgBalance == "Balance: "
MsgBye == "Bye!"
MsgInvalid == "Invalid input."

\* -------------------------------------------------------- inputs (bounded)
\* random.randint for the account number returns one of two values
AccountDraws == {Format(n, AccountWidth) : n \in {0, 1}}
PinDraws == {Format(n, PinWidth) : n \in 0..MaxPinDraw}

\* card numbers typed at a prompt: every card number that can be generated,
\* one more valid one that never is, each of them with its last digit off by
\* one, and the spec's example of a number that fails the check
BumpLast(c) == [c EXCEPT ![Len(c)] = (c[Len(c)] + 1) % 10]
ValidNumbers == {generate_card_number(Format(n, AccountWidth)) : n \in {0, 1, 2}}
TypedNumbers ==
    ValidNumbers \cup {BumpLast(c) : c \in ValidNumbers}
                 \cup {<<1,2,3,4,5,6,7,8,9,0,1,2,3,4,5,6>>}
TypedPins == {Format(n, PinWidth) : n \in 0..(MaxPinDraw + 1)}

\* a prompt the iteration never reached has read nothing: <<>>
NoInput == [action |-> 0, card_number |-> <<>>, pin |-> <<>>, amount |-> <<>>]
Menu(a) == [NoInput EXCEPT !.action = a]

\* Account.__init__, lines 16-19: the fields are None (<<>>) until their
\* generate_ method has run; pc is the next step of the construction
\* all_accounts is the class attribute the constructor appends to, module
\* the file the class is taken from ("banking" or "account")
NoAccount ==
    [pc |-> "", number |-> <<>>, account_number |-> <<>>, checksum |-> <<>>,
     card_number |-> <<>>, pin |-> <<>>, passes |-> <<>>,
     module |-> "", all_accounts |-> <<>>]

\* ------------------------------------------------------- ledger functions
\* variant of AccountNumberUnused: the query returns a row for every number
AccountNumberUnused_Never(t, number) == FALSE

\* Account.generate_account_number: the draw is kept when the query
\* SELECT * FROM card WHERE number=? (bound to the 9 digits drawn) is empty
AccountNumberUnused(t, number) == SelectWhereNumber(t, number) = <<>>

\* get_balance: None (<<>>), or <<balance>> of the first row found
get_balance(t, card_num) ==
    LET rows == SelectWhereNumber(t, card_num)
    IN  IF rows = <<>> THEN None ELSE <<rows[1].balance>>

\* variant of update_balance: the balance read is left out of the value written
update_balance_Overwrite(t, card_num, amount) ==
    UpdateWhereNumber(t, card_num, amount)

\* update_balance: reads the first row's balance, writes balance + amount
\* (with no such row fetchone() is None and line 173 raises TypeError
\* before anything is written)
update_balance(t, card_num, amount) ==
    LET rows == SelectWhereNumber(t, card_num)
    IN  IF rows = <<>> THEN t
        ELSE UpdateWhereNumber(t, card_num, rows[1].balance + amount)

\* what a balance query shows for a card that is in the table
Bal(t, card_num) == get_balance(t, card_num)[1]

\* variant of close_account: DELETE FROM card, without the WHERE
close_account_All(t, card_num) == <<>>

close_account(t, card_num) == DeleteWhereNumber(t, card_num)

\* variant of login: the PIN is not compared
login_NumberOnly(t, card_number, pin) ==
    LET result == SelectSeq(t, LAMBDA r : r.number = card_number)
    IN  IF result = <<>> THEN None ELSE result[1].number

\* login: the card number of the first row matching number and pin, or None
login(t, card_number, pin) ==
    LET result == SelectSeq(t, LAMBDA r : r.number = card_number /\ r.pin = pin)
    IN  IF result = <<>> THEN None ELSE result[1].number

\* variants of do_transfer_destination: without the passes_luhn test,
\* without the comparison of the two card numbers, without the lookup of
\* the destination
do_transfer_NoLuhn(t, from_card_num, to_card_num) ==
    IF from_card_num = to_card_num THEN MsgSame
    ELSE IF get_balance(t, to_card_num) = None THEN MsgNoCard
    ELSE ""

do_transfer_NoSelfCheck(t, from_card_num, to_card_num) ==
    IF ~passes_luhn(to_card_num) THEN MsgLuhn
    ELSE IF get_balance(t, to_card_num) = None THEN MsgNoCard
    ELSE ""

do_transfer_NoLookup(t, from_card_num, to_card_num) ==
    IF ~passes_luhn(to_card_num) THEN MsgLuhn
    ELSE IF from_card_num = to_card_num THEN MsgSame
    ELSE ""

\* do_transfer, lines 215-230: the destination is read and checked; the
\* text printed when it is rejected, "" when do_transfer goes on
do_transfer_destination(t, from_card_num, to_card_num) ==
    IF ~passes_luhn(to_card_num) THEN MsgLuhn
    ELSE IF from_card_num = to_card_num THEN MsgSame
    ELSE IF get_balance(t, to_card_num) = None THEN MsgNoCard
    ELSE ""

\* variant of do_transfer_amount: without the comparison with from_balance
do_transfer_NoFundsCheck(t, from_card_num, to_card_num, amount) ==
    [card |-> update_balance(update_balance(t, from_card_num, 0 - amount),
                             to_card_num, amount),
     text |-> MsgSuccess]

\* do_transfer, lines 233-239: the amount is read and compared with
\* from_balance; the table left and the text printed
do_transfer_amount(t, from_card_num, to_card_num, amount) ==
    IF amount > get_balance(t, from_card_num)[1]
    THEN [card |-> t, text |-> MsgNoMoney]
    ELSE [card |-> update_balance(update_balance(t, from_card_num, 0 - amount),
                                  to_card_num, amount),
          text |-> MsgSuccess]

InRange(t) == \A i \in 1..Len(t) : t[i].balance \in Balances

\* ------------------------------------------------------------------- Init
Init ==
    /\ card = <<>>
    /\ logged_in = FALSE
    /\ active_card_number = None
    /\ running = TRUE
    /\ input = NoInput
    /\ output = [text |-> "", balance |-> 0]
    /\ procs = <<>>
    /\ account = NoAccount

Say(text) == [text |-> text, balance |-> 0]

\* ------------------------------------------- __main__: the logged-out menu
\* action 1: create_card.  Account.__init__ draws until the account number
\* is unused (a rejected draw changes nothing), then draws the PIN
CreateCard ==
    /\ running /\ ~logged_in
    /\ Len(card) < MaxCards
    /\ \E account_number \in AccountDraws, pin \in PinDraws :
        /\ AccountNumberUnused(card, account_number)
        /\ card' = InsertRow(card, account_number,
                             generate_card_number(account_number), pin, 0)
    /\ input' = Menu(1)
    /\ output' = Say(MsgCreated)
    /\ UNCHANGED <<logged_in, active_card_number, running, procs, account>>

\* action 2: login
Login ==
    /\ running /\ ~logged_in
    /\ \E card_number \in TypedNumbers, pin \in TypedPins :
        /\ active_card_number' = login(card, card_number, pin)
        /\ logged_in' = (login(card, card_number, pin) # None)
        /\ input' = [Menu(2) EXCEPT !.card_number = card_number, !.pin = pin]
        /\ output' = Say(IF login(card, card_number, pin) # None
                         THEN MsgLoggedIn ELSE MsgWrong)
    /\ UNCHANGED <<card, running, procs, account>>

\* -------------------------------------------- __main__: the logged-in menu
\* action 1: check balance
Balance ==
    /\ running /\ logged_in
    /\ input' = Menu(1)
    /\ output' = [text |-> MsgBalance,
                  balance |-> get_balance(card, active_card_number)[1]]
    /\ UNCHANGED <<card, logged_in, active_card_number, running, procs, account>>

\* action 2: add income
AddIncome ==
    /\ running /\ logged_in
    /\ \E amount_to_add \in Amounts :
        /\ card' = update_balance(card, active_card_number, amount_to_add)
        /\ InRange(card')
        /\ input' = [Menu(2) EXCEPT !.amount = <<amount_to_add>>]
    /\ output' = Say(MsgIncome)
    /\ UNCHANGED <<logged_in, active_card_number, running, procs, account>>

\* action 3: do transfer
DoTransfer ==
    /\ running /\ logged_in
    /\ \E to_card_num \in TypedNumbers :
        LET rejected == do_transfer_destination(card, active_card_number, to_card_num)
        IN  IF rejected # ""
            THEN /\ card' = card
                 /\ input' = [Menu(3) EXCEPT !.card_number = to_card_num]
                 /\ output' = Say(rejected)
            ELSE \E amount \in Amounts :
                   LET r == do_transfer_amount(card, active_card_number,
                                               to_card_num, amount)
                   IN  /\ card' = r.card
                       /\ InRange(card')
                       /\ input' = [Menu(3) EXCEPT !.card_number = to_card_num,
                                                   !.amount = <<amount>>]
                       /\ output' = Say(r.text)
    /\ UNCHANGED <<logged_in, active_card_number, running, procs, account>>

\* variant of CloseAccount: lines 275-276 left out
CloseAccount_StaysLoggedIn ==
    /\ running /\ logged_in
    /\ card' = close_account(card, active_card_number)
    /\ input' = Menu(4)
    /\ output' = Say(MsgClosed)
    /\ UNCHANGED <<logged_in, active_card_number, running, procs, account>>

\* action 4: close account
CloseAccount ==
    /\ running /\ logged_in
    /\ card' = close_account(card, active_card_number)
    /\ logged_in' = FALSE
    /\ active_card_number' = None
    /\ input' = Menu(4)
    /\ output' = Say(MsgClosed)
    /\ UNCHANGED <<running, procs, account>>

\* action 5: log out
LogOut ==
    /\ running /\ logged_in
    /\ logged_in' = FALSE
    /\ active_card_number' = None
    /\ input' = Menu(5)
    /\ output' = Say(MsgLoggedOut)
    /\ UNCHANGED <<card, running, procs, account>>

\* action 0, either menu: break
Exit ==
    /\ running
    /\ running' = FALSE
    /\ input' = Menu(0)
    /\ output' = Say(MsgBye)
    /\ UNCHANGED <<card, logged_in, active_card_number, procs, account>>

\* any other number, either menu
InvalidInput ==
    /\ running
    /\ input' = Menu(IF logged_in THEN 6 ELSE 3)
    /\ output' = Say(MsgInvalid)
    /\ UNCHANGED <<card, logged_in, active_card_number, running, procs, account>>

Next ==
    \/ CreateCard
    \/ Login
    \/ Balance
    \/ AddIncome
    \/ DoTransfer
    \/ CloseAccount
    \/ LogOut
    \/ Exit
    \/ InvalidInput

Spec == Init /\ [][Next]_vars

\* the driver loop started on a table that three earlier create account
\* calls, with three different draws, have filled
FrameInit ==
    /\ card = [i \in 1..3 |->
                 [id |-> i - 1,
                  number |-> generate_card_number(Format(i - 1, AccountWidth)),
                  pin |-> Format(0, PinWidth), balance |-> 0]]
    /\ logged_in = FALSE
    /\ active_card_number = None
    /\ running = TRUE
    /\ input = NoInput
    /\ output = [text |-> "", balance |-> 0]
    /\ procs = <<>>
    /\ account = NoAccount

FrameSpec == FrameInit /\ [][Next]_vars

\* ================================================== concurrent sessions
\* Several runs of the script share card.s3db.  A session steps from one
\* statement that touches the table to the next: a SELECT reads the last
\* committed table, and UPDATE with the commit() after it is one write.
\* Each session has logged in (procs[p].active) and does at most
\* MaxOps operations, add income or do transfer.
NumProcs == 2
MaxOps == 1

Procs == 1..NumProcs

\* the table the sessions start from: two cards created with different
\* draws, with balances deposited earlier
ConcCards(b1, b2) ==
    LET a1 == Format(0, AccountWidth)
        a2 == Format(1, AccountWidth)
        pin == Format(0, PinWidth)
    IN  InsertRow(InsertRow(<<>>, a1, generate_card_number(a1), pin, b1),
                  a2, generate_card_number(a2), pin, b2)

IdleProc(active) ==
    [pc |-> "menu", active |-> active, op |-> "", ops |-> 0,
     to_card_num |-> <<>>, amount |-> 0, from_balance |-> <<>>,
     to_balance |-> <<>>, card_num |-> <<>>, delta |-> 0,
     current_balance |-> 0, leg |-> 0, text |-> ""]

ConcInit ==
    /\ \E b1, b2 \in 0..MaxAmount : card = ConcCards(b1, b2)
    /\ procs \in [Procs -> {IdleProc(ConcCards(0, 0)[i].number) : i \in 1..2}]
    /\ logged_in = FALSE
    /\ active_card_number = None
    /\ running = TRUE
    /\ input = NoInput
    /\ output = [text |-> "", balance |-> 0]
    /\ account = NoAccount

seqVars == <<logged_in, active_card_number, running, input, output, account>>

Back(pr, text) == [pr EXCEPT !.pc = "menu", !.text = text]

\* __main__, action 2: reads the amount and calls update_balance
BeginIncome(p) ==
    /\ procs[p].pc = "menu" /\ procs[p].ops < MaxOps
    /\ \E amount_to_add \in Amounts :
        procs' = [procs EXCEPT ![p] =
                    [@ EXCEPT !.pc = "ub_select", !.op = "income",
                              !.ops = @ + 1, !.amount = amount_to_add,
                              !.card_num = procs[p].active,
                              !.delta = amount_to_add]]
    /\ UNCHANGED <<card, seqVars>>

\* do_transfer, lines 215-223: the destination is read and checked
BeginTransfer(p) ==
    /\ procs[p].pc = "menu" /\ procs[p].ops < MaxOps
    /\ \E to_card_num \in TypedNumbers :
        LET pr == [procs[p] EXCEPT !.op = "transfer", !.ops = @ + 1,
                                   !.to_card_num = to_card_num]
        IN  procs' = [procs EXCEPT ![p] =
                IF ~passes_luhn(to_card_num) THEN Back(pr, MsgLuhn)
                ELSE IF pr.active = to_card_num THEN Back(pr, MsgSame)
                ELSE [pr EXCEPT !.pc = "get_from"]]
    /\ UNCHANGED <<card, seqVars>>

\* do_transfer, line 226: from_balance = get_balance(...)
GetFromBalance(p) ==
    /\ procs[p].pc = "get_from"
    /\ procs' = [procs EXCEPT ![p] =
                   [@ EXCEPT !.pc = "get_to",
                             !.from_balance = get_balance(card, procs[p].active)]]
    /\ UNCHANGED <<card, seqVars>>

\* do_transfer, lines 227-230: to_balance = get_balance(...), None rejected
GetToBalance(p) ==
    /\ procs[p].pc = "get_to"
    /\ LET to_balance == get_balance(card, procs[p].to_card_num)
           pr == [procs[p] EXCEPT !.to_balance = to_balance]
       IN  procs' = [procs EXCEPT ![p] =
               IF to_balance = None THEN Back(pr, MsgNoCard)
               ELSE [pr EXCEPT !.pc = "amount"]]
    /\ UNCHANGED <<card, seqVars>>

\* do_transfer, lines 233-237: the amount is read and compared with the
\* from_balance read earlier; the debit's update_balance is entered
EnterAmount(p) ==
    /\ procs[p].pc = "amount"
    /\ \E amount \in Amounts :
        LET pr == [procs[p] EXCEPT !.amount = amount]
        IN  procs' = [procs EXCEPT ![p] =
                IF amount > pr.from_balance[1] THEN Back(pr, MsgNoMoney)
                ELSE [pr EXCEPT !.pc = "ub_select", !.leg = 1,
                                !.card_num = pr.active, !.delta = 0 - amount]]
    /\ UNCHANGED <<card, seqVars>>

\* update_balance, lines 171-173: SELECT balance ... fetchone()
UbSelect(p) ==
    /\ procs[p].pc = "ub_select"
    /\ procs' = [procs EXCEPT ![p] =
                   [@ EXCEPT !.pc = "ub_update",
                             !.current_balance = Bal(card, procs[p].card_num)]]
    /\ UNCHANGED <<card, seqVars>>

\* update_balance, lines 174-176: UPDATE ... commit(); then back in the
\* caller: add income is done, the debit is followed by the credit's
\* update_balance (line 238), the credit by 'Success!'
UbUpdate(p) ==
    /\ procs[p].pc = "ub_update"
    /\ card' = UpdateWhereNumber(card, procs[p].card_num,
                                 procs[p].current_balance + procs[p].delta)
    /\ procs' = [procs EXCEPT ![p] =
           IF procs[p].op = "income" THEN Back(procs[p], MsgIncome)
           ELSE IF procs[p].leg = 1
           THEN [procs[p] EXCEPT !.pc = "ub_select", !.leg = 2,
                                 !.card_num = procs[p].to_card_num,
                                 !.delta = procs[p].amount]
           ELSE Back(procs[p], MsgSuccess)]
    /\ UNCHANGED seqVars

ConcNext ==
    \E p \in Procs :
        \/ BeginIncome(p)
        \/ BeginTransfer(p)
        \/ GetFromBalance(p)
        \/ GetToBalance(p)
        \/ EnterAmount(p)
        \/ UbSelect(p)
        \/ UbUpdate(p)

ConcSpec == ConcInit /\ [][ConcNext]_vars

\* every session has logged in to the first card, whose balance is 0
DepositInit ==
    /\ card = ConcCards(0, 0)
    /\ procs = [p \in Procs |-> IdleProc(ConcCards(0, 0)[1].number)]
    /\ logged_in = FALSE
    /\ active_card_number = None
    /\ running = TRUE
    /\ input = NoInput
    /\ output = [text |-> "", balance |-> 0]
    /\ account = NoAccount

DepositSpec == DepositInit /\ [][ConcNext]_vars

\* ======================================== Account.__init__, step by step
\* account numbers whose checksum is computed: every number with at most
\* two non-zero digits, the largest one, and the example of the
\* specification
LuhnDraws ==
    {n \in {d * Pow10(k) + e * Pow10(j) : d, e \in 0..9, k, j \in 0..8} :
        n <= 999999999}
    \cup {3424062, 999999999}

ExampleAccount == Format(3424062, AccountWidth)

\* Account.__init__ after line 22 has kept a draw
LuhnInit ==
    /\ card = <<>>
    /\ logged_in = FALSE
    /\ active_card_number = None
    /\ running = TRUE
    /\ input = NoInput
    /\ output = [text |-> "", balance |-> 0]
    /\ procs = <<>>
    /\ \E n \in LuhnDraws :
        account = [NoAccount EXCEPT !.pc = "generate_checksum",
                                    !.number = Format(n, AccountWidth),
                                    !.account_number = Format(n, AccountWidth)]

restVars == <<card, logged_in, active_card_number, running, input, output, procs>>

\* line 23: self.generate_checksum()
GenerateChecksum ==
    /\ account.pc = "generate_checksum"
    /\ account' = [account EXCEPT
                     !.pc = "generate_card_number",
                     !.checksum = <<generate_checksum(account.account_number)>>]
    /\ UNCHANGED restVars

\* line 24: self.generate_card_number()
GenerateCardNumber ==
    /\ account.pc = "generate_card_number"
    /\ account' = [account EXCEPT
                     !.pc = "generate_pin",
                     !.card_number = ComposeCardNumber(account.account_number,
                                                       account.checksum[1])]
    /\ UNCHANGED restVars

\* the card number printed by create_card is typed as the destination of a
\* transfer: do_transfer, line 218, applies passes_luhn to it
LuhnCheck ==
    /\ account.card_number # <<>> /\ account.passes = <<>>
    /\ account' = [account EXCEPT !.passes = <<passes_luhn(account.card_number)>>]
    /\ UNCHANGED restVars

LuhnNext == GenerateChecksum \/ GenerateCardNumber \/ LuhnCheck

LuhnSpec == LuhnInit /\ [][LuhnNext]_vars

\* ==================================== Account(), from draw to stored card
\* the class Account of banking.py (module "banking") keeps strings of
\* digits and asks the table card; the class of account.py (module
\* "account") keeps integers and asks the list all_accounts
GenInit ==
    /\ card = <<>>
    /\ logged_in = FALSE
    /\ active_card_number = None
    /\ running = TRUE
    /\ input = NoInput
    /\ output = [text |-> "", balance |-> 0]
    /\ procs = <<>>
    /\ \E m \in {"banking", "account"} : account = [NoAccount EXCEPT !.module = m]

\* Account(...): the fields start as None; all_accounts belongs to the class.
\* Constructions stop after one more than there are account numbers to
\* draw, so that the last one of account.py finds every number taken.
NewAccount ==
    /\ account.pc \in {"", "done"}
    /\ Len(account.all_accounts) <= Cardinality(AccountDraws)
    /\ account' = [NoAccount EXCEPT !.pc = "draw",
                                    !.module = account.module,
                                    !.all_accounts = account.all_accounts]
    /\ UNCHANGED restVars

\* the value of number after a draw: text in banking.py, an int in
\* account.py (a field that holds the int n is <<n>>, None is <<>>)
Drawn(v) == IF account.module = "banking" THEN v ELSE <<ToInteger(v)>>

\* the first draw, before the loop
Draw(v) ==
    /\ account.pc = "draw"
    /\ account' = [account EXCEPT !.pc = "query", !.number = Drawn(v)]
    /\ UNCHANGED restVars

\* the draw in the body of the while loop
Redraw(v) ==
    /\ account.pc = "redraw"
    /\ account' = [account EXCEPT !.pc = "query", !.number = Drawn(v)]
    /\ UNCHANGED restVars

\* the loop condition: result is not None / number in all_account_numbers
LoopCondition ==
    IF account.module = "banking"
    THEN ~AccountNumberUnused(card, account.number)
    ELSE \E i \in 1..Len(account.all_accounts) :
            account.all_accounts[i].account_number = account.number

\* the test of the while loop: redraw, or keep the number and go on with
\* the next call of __init__
Query ==
    /\ account.pc = "query"
    /\ account' = IF LoopCondition
                  THEN [account EXCEPT !.pc = "redraw"]
                  ELSE [account EXCEPT
                          !.account_number = account.number,
                          !.pc = IF account.module = "banking"
                                 THEN "generate_checksum"
                                 ELSE "generate_card_number_int"]
    /\ UNCHANGED restVars

\* account.py: int(f'400000{self.account_number}0')
GenerateCardNumberInt ==
    /\ account.pc = "generate_card_number_int"
    /\ account' = [account EXCEPT
                     !.pc = "generate_pin",
                     !.card_number =
                        <<ToInteger(BankPrefix \o Str(account.account_number[1])
                                               \o <<0>>)>>]
    /\ UNCHANGED restVars

GeneratePin ==
    /\ account.pc = "generate_pin"
    /\ \E p \in PinDraws :
         account' = [account EXCEPT
                       !.pc = "append",
                       !.pin = IF account.module = "banking" THEN p ELSE <<ToInteger(p)>>]
    /\ UNCHANGED restVars

\* self.all_accounts.append(self); only create_card of banking.py goes on
AppendAccount ==
    /\ account.pc = "append"
    /\ account' = [account EXCEPT
                     !.pc = IF account.module = "banking" THEN "insert" ELSE "done",
                     !.all_accounts =
                        Append(account.all_accounts,
                               [account_number |-> account.account_number,
                                card_number |-> account.card_number,
                                pin |-> account.pin])]
    /\ UNCHANGED restVars

\* create_card: the prints, the INSERT and the commit
InsertCard ==
    /\ account.pc = "insert"
    /\ card' = InsertRow(card, account.account_number, account.card_number,
                         account.pin, 0)
    /\ input' = Menu(1)
    /\ output' = Say(MsgCreated)
    /\ account' = [account EXCEPT !.pc = "done"]
    /\ UNCHANGED <<logged_in, active_card_number, running, procs>>

GenNext ==
    \/ NewAccount
    \/ \E v \in AccountDraws : Draw(v)
    \/ \E v \in AccountDraws : Redraw(v)
    \/ Query
    \/ GenerateChecksum
    \/ GenerateCardNumber
    \/ GenerateCardNumberInt
    \/ GeneratePin
    \/ AppendAccount
    \/ InsertCard

\* the program runs on, and random.randint is fair: in a loop that keeps
\* drawing, every value is drawn again and again
GenSpec ==
    /\ GenInit /\ [][GenNext]_vars
    /\ WF_vars(Query)
    /\ \A v \in AccountDraws : SF_vars(Draw(v)) /\ SF_vars(Redraw(v))

\* ================================================================ claims
\* a step of the loop that runs do_transfer / add income for the active card
TransferStep == running /\ logged_in /\ input'.action = 3
IncomeStep == running /\ logged_in /\ input'.action = 2

\* the destination typed passes every check that precedes the amount prompt
GoodDestination(t, from_card_num, to_card_num) ==
    /\ passes_luhn(to_card_num)
    /\ to_card_num # from_card_num
    /\ get_balance(t, to_card_num) # None

\* C1: in every reachable state the balance of every stored card is >= 0.
C1_BalanceNonNegative == \A i \in 1..Len(card) : card[i].balance >= 0

\* C2: a successful transfer of amount from card A to a different card B
\* debits A by exactly amount and credits B by exactly amount, so
\* balance(A) + balance(B) is the same before and after.
C2_TransferConserves ==
    [][(TransferStep /\ output'.text = MsgSuccess) =>
         LET A == active_card_number
             B == input'.card_number
             amount == input'.amount[1]
         IN  /\ A # B
             /\ Bal(card', A) = Bal(card, A) - amount
             /\ Bal(card', B) = Bal(card, B) + amount
             /\ Bal(card', A) + Bal(card', B) = Bal(card, A) + Bal(card, B)]_vars

C2_Witness ==
    /\ input.action = 3 /\ output.text = MsgSuccess
    /\ input.amount[1] > 0
    /\ Bal(card, input.card_number) > 0

\* C3: the debit and the credit of a transfer commit together or not at
\* all: in no state of the shared table has a session's transfer committed
\* its debit (update_balance of line 237 has returned) while its credit
\* (update_balance of line 238) is not yet committed.
C3_TransferAtomic ==
    \A p \in DOMAIN procs :
        ~(procs[p].op = "transfer" /\ procs[p].leg = 2
          /\ procs[p].pc \in {"ub_select", "ub_update"})

\* C4: no two stored cards have the same card number.
C4_CardNumbersUnique ==
    \A i, j \in 1..Len(card) : i # j => card[i].number # card[j].number

\* C5: a transfer whose amount exceeds the source card's balance is rejected
\* as insufficient funds and leaves the table, so both balances, unchanged.
C5_InsufficientFunds ==
    [][(/\ TransferStep
        /\ GoodDestination(card, active_card_number, input'.card_number)
        /\ input'.amount # <<>>
        /\ input'.amount[1] > Bal(card, active_card_number))
       => (output'.text = MsgNoMoney /\ card' = card)]_vars

C5_Witness ==
    /\ logged_in /\ input.action = 3 /\ output.text = MsgNoMoney
    /\ input.amount[1] > Bal(card, active_card_number)
    /\ input.amount[1] > 0

\* C6: a transfer with amount <= 0 to an existing, Luhn-valid, different
\* destination is rejected (it does not succeed) and changes no balance.
C6_NonPositiveTransferRejected ==
    [][(/\ TransferStep
        /\ GoodDestination(card, active_card_number, input'.card_number)
        /\ input'.amount # <<>>
        /\ input'.amount[1] <= 0)
       => (output'.text # MsgSuccess /\ card' = card)]_vars

\* C7: a deposit with amount <= 0 fails and leaves the balance unchanged; a
\* deposit with amount > 0 sets the balance to the old balance plus amount.
C7_DepositRule ==
    [][IncomeStep =>
         IF input'.amount[1] <= 0
         THEN output'.text # MsgIncome /\ card' = card
         ELSE Bal(card', active_card_number)
                = Bal(card, active_card_number) + input'.amount[1]]_vars

\* C8: a transfer whose destination fails the Luhn validation is rejected as
\* an invalid destination before anything else is examined (the amount is
\* never asked for) and the table is left unchanged.
C8_InvalidDestination ==
    [][(TransferStep /\ ~passes_luhn(input'.card_number))
       => (output'.text = MsgLuhn /\ input'.amount = <<>> /\ card' = card)]_vars

C8_Witness ==
    /\ logged_in /\ input.action = 3 /\ output.text = MsgLuhn
    /\ input.card_number = <<1,2,3,4,5,6,7,8,9,0,1,2,3,4,5,6>>
    /\ Bal(card, active_card_number) > 0

\* C9: a transfer whose destination equals the source card number fails as
\* a self-transfer, whatever the balance, before any amount is asked for,
\* and changes no balance.
C9_SelfTransfer ==
    [][(TransferStep /\ input'.card_number = active_card_number)
       => (output'.text = MsgSame /\ input'.amount = <<>> /\ card' = card)]_vars

C9_Witness ==
    /\ logged_in /\ input.action = 3 /\ output.text = MsgSame
    /\ input.card_number = active_card_number
    /\ Bal(card, active_card_number) > 0

\* C10: a transfer to a Luhn-valid number that differs from the source and
\* is not in the table is rejected as "no such card" before the amount is
\* asked for, and no balance changes.
C10_DestinationNotFound ==
    [][(/\ TransferStep
        /\ passes_luhn(input'.card_number)
        /\ input'.card_number # active_card_number
        /\ get_balance(card, input'.card_number) = None)
       => (output'.text = MsgNoCard /\ input'.amount = <<>> /\ card' = card)]_vars

C10_Witness ==
    /\ logged_in /\ input.action = 3 /\ output.text = MsgNoCard
    /\ passes_luhn(input.card_number)
    /\ get_balance(card, input.card_number) = None
    /\ Bal(card, active_card_number) > 0

\* C11: Luhn round trip: for every account number the card number built
\* as '400000' + account number + the digit of generate_checksum has 16
\* digits and is accepted by passes_luhn.
C11_LuhnRoundTrip ==
    /\ account.card_number # <<>> => Len(account.card_number) = 16
    /\ account.passes # <<>> => account.passes = <<TRUE>>

C11_Witness ==
    /\ account.account_number = Format(999999999, AccountWidth)
    /\ account.passes = <<TRUE>>

\* C12 as stated: for account number "003424062" the checksum digit computed
\* over "400000003424062" is 8, and "4000000034240628" passes validation.
C12_LuhnExampleEight ==
    (account.account_number = ExampleAccount /\ account.checksum # <<>>)
    => /\ account.checksum = <<8>>
       /\ passes_luhn(BankPrefix \o ExampleAccount \o <<8>>)

\* C12 amended: for account number "003424062" the checksum digit computed
\* over "400000003424062" is 4, the card number is "4000000034240624" and
\* passes validation, and "4000000034240628" does not.
C12_LuhnExampleFour ==
    account.account_number = ExampleAccount
    => /\ account.checksum # <<>> => account.checksum = <<4>>
       /\ account.card_number # <<>>
            => account.card_number = BankPrefix \o ExampleAccount \o <<4>>
       /\ account.passes # <<>> => account.passes = <<TRUE>>
       /\ account.checksum # <<>>
            => ~passes_luhn(BankPrefix \o ExampleAccount \o <<8>>)

C12_Witness ==
    /\ account.account_number = ExampleAccount
    /\ account.checksum = <<4>>
    /\ account.passes = <<TRUE>>

\* C13: no lost updates: when every session has deposited the same amount
\* a > 0 to the same card, whose balance was 0, and nothing else was done, the
\* balance is NumProcs * a, whatever the interleaving.
C13_NoLostUpdates ==
    \A a \in 1..MaxAmount :
        (/\ procs # <<>>
         /\ \A p \in DOMAIN procs :
               /\ procs[p].pc = "menu" /\ procs[p].ops = 1
               /\ procs[p].op = "income" /\ procs[p].amount = a)
        => Bal(card, procs[1].active) = NumProcs * a

\* C14: the sufficient-funds check and the debit are one atomic unit: as
\* long as no session has entered a negative amount, no interleaving of the
\* sessions' transfers and deposits drives a balance below 0.
C14_CheckAndDebitAtomic ==
    (/\ procs # <<>>
     /\ \A p \in DOMAIN procs : procs[p].ops <= 1 /\ procs[p].amount >= 0)
    => \A i \in 1..Len(card) : card[i].balance >= 0

\* steps of the loop that run close account, login and create account
CloseStep == running /\ logged_in /\ input'.action = 4
LoginStep == running /\ ~logged_in /\ input'.action = 2
CreateStep == running /\ ~logged_in /\ input'.action = 1

\* the rows of the cards other than card_num
OtherCards(t, card_num) == SelectSeq(t, LAMBDA r : r.number # card_num)

\* C15: close account deletes the card whatever its balance: afterwards
\* its number is not in the table (a balance query finds nothing, no PIN
\* logs in to it, a transfer to it is rejected as non-existent) and the rows
\* of every other card number are unchanged.
C15_CloseAccount ==
    [][CloseStep =>
         LET closed == active_card_number
         IN  /\ get_balance(card', closed) = None
             /\ \A pin \in TypedPins : login(card', closed, pin) = None
             /\ \A from \in TypedNumbers \ {closed} :
                   do_transfer_destination(card', from, closed) = MsgNoCard
             /\ OtherCards(card', closed) = OtherCards(card, closed)
             /\ Len(card') = Len(OtherCards(card, closed))]_vars

C15_Witness ==
    /\ input.action = 4 /\ output.text = MsgClosed /\ ~logged_in
    /\ card # <<>> /\ card[1].balance # 0

\* C16: login succeeds exactly when a stored card has the card number and
\* the PIN entered; then it returns that card number and the session is
\* logged in to it, otherwise it returns None and the session stays logged
\* out.
C16_Login ==
    [][LoginStep =>
         LET match == \E i \in 1..Len(card) :
                          /\ card[i].number = input'.card_number
                          /\ card[i].pin = input'.pin
         IN  IF match
             THEN /\ logged_in' /\ active_card_number' = input'.card_number
                  /\ output'.text = MsgLoggedIn
             ELSE /\ ~logged_in' /\ active_card_number' = None
                  /\ output'.text = MsgWrong]_vars

C16_Witness ==
    /\ input.action = 2 /\ output.text = MsgWrong /\ ~logged_in
    /\ get_balance(card, input.card_number) # None

\* C17: an insert of a card whose card number is already in the table fails
\* and leaves the table unchanged: no create step adds a row whose number
\* the table already holds.
C17_InsertRejectsDuplicate ==
    [][(CreateStep /\ Len(card') > Len(card))
       => get_balance(card, card'[Len(card')].number) = None]_vars

\* C19: in the driver loop logged_in holds exactly when active_card_number
\* is not None, the active card is in the table whenever logged_in holds,
\* and after close account or log out the session is logged out with no
\* active card.
C19_Session ==
    /\ logged_in <=> active_card_number # None
    /\ logged_in => get_balance(card, active_card_number) # None
    /\ (input.action \in {4, 5} /\ output.text \in {MsgClosed, MsgLoggedOut})
         => (~logged_in /\ active_card_number = None)

C19_Witness ==
    /\ input.action = 4 /\ output.text = MsgClosed
    /\ ~logged_in /\ active_card_number = None

\* what an UPDATE of the balance of the cards in S may change: the rows,
\* their numbers, PINs and ids stay, and so do the rows of other cards
SameButBalance(t, u, S) ==
    /\ Len(u) = Len(t)
    /\ \A i \in 1..Len(t) :
          /\ u[i].number = t[i].number /\ u[i].pin = t[i].pin /\ u[i].id = t[i].id
          /\ t[i].number \notin S => u[i] = t[i]

\* C18: a deposit changes only the balance of the active card, a transfer
\* only the balances of source and destination; only create account adds a
\* row (one, at the end), only close account removes rows, and no step
\* changes the number or PIN of a row that stays.
C18_Frame ==
    [][/\ IncomeStep => SameButBalance(card, card', {active_card_number})
       /\ TransferStep
            => SameButBalance(card, card', {active_card_number, input'.card_number})
       /\ ~(IncomeStep \/ TransferStep \/ CreateStep \/ CloseStep) => card' = card
       /\ Len(card') > Len(card)
            => (CreateStep /\ SubSeq(card', 1, Len(card')  - 1) = card)
       /\ Len(card') < Len(card)
            => (CloseStep /\ card' = OtherCards(card, active_card_number))
       /\ Len(card') = Len(card) => SameButBalance(card, card', ValidNumbers)]_vars

C18_Witness ==
    /\ logged_in /\ input.action = 3 /\ output.text = MsgSuccess
    /\ input.amount[1] > 0
    /\ Len(card) = 3
    /\ \E i \in 1..3 : /\ card[i].number \notin {active_card_number, input.card_number}
                       /\ card[i].balance # 0

\* generate_account_number is between its first draw and the end of its loop
InLoop == account.pc \in {"draw", "redraw", "query"}

\* no account made so far has the account number v
Unused(v) ==
    IF account.module = "banking"
    THEN \A i \in 1..Len(card) : SubSeq(card[i].number, 7, 15) # v
    ELSE \A i \in 1..Len(account.all_accounts) :
            account.all_accounts[i].account_number # <<ToInteger(v)>>

\* C20: with fair draws, generate_account_number that runs while some
\* account number of the range is unused eventually leaves its loop.
C20_GenerationTerminates ==
    (InLoop /\ \E v \in AccountDraws : Unused(v)) ~> ~InLoop

\* the loop is about to draw again, and a draw that ends it exists
C20_Witness ==
    /\ account.pc = "redraw"
    /\ \E v \in AccountDraws : Unused(v)

====
